---- MODULE Spec2Model ----
(***************************************************************************)
(* The prompt relay of server/index.js: POST /api/generate forwards a      *)
(* prompt to the generative-language API, retrying each model with         *)
(* exponential backoff (fetchWithRetry) and falling back from the primary  *)
(* model to the fallback model.                                            *)
(*                                                                         *)
(* JavaScript runs one handler at a time between two awaits, so every      *)
(* action below is one synchronous run of the handler: from the completion *)
(* of the awaited promise to the next await (or to the response).          *)
(*                                                                         *)
(* Delays are exact rationals kept as integers in units of 1/DelayUnit ms  *)
(* (the source multiplies a double by 1.8; the doubles differ from the     *)
(* exact values by at most one unit in the last place).                    *)
(***************************************************************************)
EXTENDS Integers, Sequences, FiniteSets, TLC

VARIABLES
  env,     \* process.env after startup (prepareGoogleCreds has run)
  issued,  \* how many access tokens the token endpoint has handed out
  req      \* per inbound request: the handler's locals and what it has done

vars == <<env, issued, req>>

----------------------------------------------------------------------------
(* Program constants *)

Retries == 7
InitialDelay == 600
GrowthNum == 9
GrowthDen == 5
RetryableStatuses == {429, 500, 502, 503, 504}
PRIMARY_MODEL == "gemini-2.5-flash"
FALLBACK_MODEL == "gemini-2.5-mini"
modelsToTry == <<PRIMARY_MODEL, FALLBACK_MODEL>>

\* one millisecond, in the unit delays are kept in: Retries - 1 multiplications
\* by GrowthNum / GrowthDen stay integral
DelayUnit == GrowthDen ^ (Retries - 1)

----------------------------------------------------------------------------
(* JavaScript values, as far as the handler looks at them *)

Undefined == [t |-> "undefined"]
JNull == [t |-> "null"]
JStr(s) == [t |-> "str", v |-> s]
JNum(n) == [t |-> "num", v |-> n]
JArr(s) == [t |-> "arr", v |-> s]
JObj(f) == [t |-> "obj", v |-> f]

\* !x is false for these
Truthy(x) ==
  CASE x.t \in {"undefined", "null"} -> FALSE
    [] x.t = "str" -> x.v # ""
    [] x.t = "num" -> x.v # 0
    [] OTHER -> TRUE

\* a || b
OrElse(a, b) == IF Truthy(a) THEN a ELSE b

\* x?.k for a key k that is no built-in property
Get(x, k) ==
  IF x.t = "obj" /\ k \in DOMAIN x.v THEN x.v[k] ELSE Undefined

\* x?.[0]; the first character of a string has none of the properties the
\* handler reads next, so it reads on as undefined does
First(x) ==
  CASE x.t = "arr" /\ Len(x.v) > 0 -> x.v[1]
    [] x.t = "obj" /\ "0" \in DOMAIN x.v -> x.v["0"]
    [] OTHER -> Undefined

\* String(x) as Array.prototype.join applies it to an element
RECURSIVE ToStr(_)
RECURSIVE JoinWith(_, _)
JoinWith(s, sep) ==
  IF Len(s) = 0 THEN ""
  ELSE IF Len(s) = 1 THEN ToStr(s[1])
  ELSE ToStr(s[1]) \o sep \o JoinWith(Tail(s), sep)

ToStr(x) ==
  CASE x.t \in {"undefined", "null"} -> ""
    [] x.t = "str" -> x.v
    [] x.t = "num" -> ToString(x.v)
    [] x.t = "arr" -> JoinWith(x.v, ",")
    [] OTHER -> "[object Object]"

----------------------------------------------------------------------------
(* Text extraction, lines 151-158 *)

\* json?.candidates?.[0]?.content?.parts
CandidateParts(json) ==
  Get(Get(First(Get(json, "candidates")), "content"), "parts")

\* json?.content?.[0]?.parts
ContentParts(json) == Get(First(Get(json, "content")), "parts")

\* p.text || "", or the TypeError of reading a property of null / undefined
PartThrows(p) == p.t \in {"undefined", "null"}
PartText(p) == OrElse(Get(p, "text"), JStr(""))

\* an || chain that looks at content[0].parts first
PartsOfContentFirst(json) ==
  OrElse(OrElse(ContentParts(json), CandidateParts(json)), JArr(<<>>))

PartsOf(json) ==
  OrElse(OrElse(CandidateParts(json), ContentParts(json)), JArr(<<>>))

\* parts.map((p) => p.text || "").join("\n"), null standing for a TypeError
MapJoin(parts) ==
  IF parts.t # "arr" THEN JNull
  ELSE IF \E i \in 1..Len(parts.v) : PartThrows(parts.v[i]) THEN JNull
  ELSE JStr(JoinWith([i \in 1..Len(parts.v) |-> PartText(parts.v[i])], "\n"))

\* extracted: null when parts.map or the callback throws (the catch is empty)
ExtractText(json) == CHOOSE extracted \in {MapJoin(parts) : parts \in {PartsOf(json)}} : TRUE

----------------------------------------------------------------------------
(* The upstream API as the handler sees it *)

\* response bodies: 2xx bodies in the two documented shapes, in neither, with
\* malformed parts and one that is no JSON; error bodies are only passed on
BodyHello == "{\"candidates\":[{\"content\":{\"parts\":[{\"text\":\"hello\"}]}}]}"
BodyWorld == "{\"content\":[{\"parts\":[{\"text\":\"world\"}]}]}"
BodyBoth == "{\"candidates\":[{\"content\":{\"parts\":[{\"text\":\"hello\"}]}}],\"content\":[{\"parts\":[{\"text\":\"world\"}]}]}"
BodyTwoParts == "{\"candidates\":[{\"content\":{\"parts\":[{\"text\":\"a\"},{\"inlineData\":\"x\"},{\"text\":\"b\"}]}}]}"
BodyNoParts == "{\"candidates\":[{\"content\":{\"parts\":[]}}],\"content\":[{\"parts\":[{\"text\":\"world\"}]}]}"
BodyEmpty == "{}"
BodyBlocked == "{\"candidates\":[],\"promptFeedback\":{\"blockReason\":\"SAFETY\"}}"
BodyPartsString == "{\"candidates\":[{\"content\":{\"parts\":\"oops\"}}]}"
BodyPartsNull == "{\"candidates\":[{\"content\":{\"parts\":[null]}}]}"
BodyHtml == "<html>Bad Gateway</html>"
BodyQuota == "{\"error\":{\"message\":\"quota exceeded\"}}"

OkBodies ==
  {BodyHello, BodyWorld, BodyBoth, BodyTwoParts, BodyNoParts, BodyEmpty,
   BodyBlocked, BodyPartsString, BodyPartsNull, BodyHtml}
ErrBodies == {BodyHtml, BodyQuota}

TextPart(s) == JObj([text |-> JStr(s)])
Candidates(parts) == JArr(<<JObj([content |-> JObj([parts |-> parts])])>>)
Contents(parts) == JArr(<<JObj([parts |-> parts])>>)

\* JSON.parse of the bodies above; ok is FALSE for a SyntaxError
Parse(raw) ==
  CASE raw = BodyHello ->
         [ok |-> TRUE, json |-> JObj([candidates |-> Candidates(JArr(<<TextPart("hello")>>))])]
    [] raw = BodyWorld ->
         [ok |-> TRUE, json |-> JObj([content |-> Contents(JArr(<<TextPart("world")>>))])]
    [] raw = BodyBoth ->
         [ok |-> TRUE, json |-> JObj([candidates |-> Candidates(JArr(<<TextPart("hello")>>)),
                                      content |-> Contents(JArr(<<TextPart("world")>>))])]
    [] raw = BodyTwoParts ->
         [ok |-> TRUE, json |-> JObj([candidates |-> Candidates(JArr(
              <<TextPart("a"), JObj([inlineData |-> JStr("x")]), TextPart("b")>>))])]
    [] raw = BodyNoParts ->
         [ok |-> TRUE, json |-> JObj([candidates |-> Candidates(JArr(<<>>)),
                                      content |-> Contents(JArr(<<TextPart("world")>>))])]
    [] raw = BodyEmpty ->
         [ok |-> TRUE, json |-> JObj([x \in {} |-> Undefined])]
    [] raw = BodyBlocked ->
         [ok |-> TRUE, json |-> JObj([candidates |-> JArr(<<>>),
                                      promptFeedback |-> JObj([blockReason |-> JStr("SAFETY")])])]
    [] raw = BodyPartsString ->
         [ok |-> TRUE, json |-> JObj([candidates |-> Candidates(JStr("oops"))])]
    [] raw = BodyPartsNull ->
         [ok |-> TRUE, json |-> JObj([candidates |-> Candidates(JArr(<<JNull>>))])]
    [] raw = BodyQuota ->
         [ok |-> TRUE, json |-> JObj([error |-> JObj([message |-> JStr("quota exceeded")])])]
    [] OTHER -> [ok |-> FALSE, json |-> Undefined]

Statuses == {200, 404} \cup RetryableStatuses

\* res.ok of node-fetch
Ok(status) == status >= 200 /\ status < 300

\* what fetch can resolve to; readable is FALSE when reading the body stream fails
Responses ==
  [status : {s \in Statuses : Ok(s)}, body : OkBodies, readable : BOOLEAN] \cup
  [status : {s \in Statuses : ~Ok(s)}, body : ErrBodies, readable : BOOLEAN]

NoResp == [status |-> 0, body |-> "", readable |-> FALSE]

\* the shapes client.getAccessToken() resolves to
AccessTokens(n) ==
  {JStr("tok" \o ToString(n)), JObj([token |-> JStr("tok" \o ToString(n))]),
   JObj([token |-> JNull])}

\* req.body.prompt
Prompts == {Undefined, JStr(""), JStr("hi")}

----------------------------------------------------------------------------
(* Startup *)

\* the inbound requests the model follows; Single is the one that runs alone
Reqs == {"r1", "r2"}
Single == {"r1"}

ServiceAccountPath == "/tmp/google_service_account.json"

\* prepareGoogleCreds(); writes is FALSE when fs.writeFileSync throws
prepareGoogleCreds(e, writes) ==
  IF ~Truthy(e.GOOGLE_SERVICE_ACCOUNT_JSON) THEN e
  ELSE IF writes
    THEN [e EXCEPT !.GOOGLE_APPLICATION_CREDENTIALS = JStr(ServiceAccountPath)]
    ELSE e

Environments ==
  [GOOGLE_API_KEY : {Undefined, JStr("KEY")},
   GOOGLE_SERVICE_ACCOUNT_JSON : {Undefined, JStr("{service account}")},
   GOOGLE_APPLICATION_CREDENTIALS : {Undefined}]

NetError == [status |-> -1, body |-> "", readable |-> FALSE]

\* a request that has not arrived yet.  Locals of the handler and of
\* fetchWithRetry: prompt, model (index into modelsToTry), url, headers,
\* attempt, delay, gresp.  What the handler has done so far: sent (upstream
\* requests), inflight (upstream requests without an outcome yet), last (the
\* outcome of the latest one), faults (the kinds of failed attempts of the
\* current fetchWithRetry call), waits (backoff timers set), authCalls
\* (credential resolutions started), tokenCalls (token exchanges started),
\* returned (what fetchWithRetry returned, per call), threw (errors that
\* reached the catch), reply (responses written to the client), steps (runs
\* of the handler between two awaits).
NewRequest ==
  [pc |-> "idle", prompt |-> Undefined, model |-> 0,
   url |-> [model |-> "", params |-> {}],
   headers |-> ("Content-Type" :> "application/json"),
   attempt |-> 0, delay |-> 0, gresp |-> NoResp,
   sent |-> <<>>, inflight |-> 0, last |-> NoResp, faults |-> {},
   waits |-> <<>>, authCalls |-> 0, tokenCalls |-> 0, returned |-> <<>>, threw |-> <<>>,
   reply |-> <<>>, steps |-> 0]

Init ==
  /\ \E e \in Environments, writes \in BOOLEAN : env = prepareGoogleCreds(e, writes)
  /\ issued = 0
  /\ req = [r \in Reqs |-> NewRequest]

----------------------------------------------------------------------------
(* The handler of POST /api/generate, as functions of a request's record *)

\* res.status(code).json(body), after which the handler returns
Respond(s, code, body) ==
  [s EXCEPT !.pc = "done", !.reply = Append(@, [code |-> code, body |-> body])]

\* lines 162-165
Catch(s, err) ==
  Respond([s EXCEPT !.threw = Append(@, [model |-> s.model, attempt |-> s.attempt, error |-> err])],
          500, [error |-> "internal error", details |-> err])

\* a retry loop that also retries 404
IsRetryableOrNotFound(status) == status \in RetryableStatuses \cup {404}

\* line 50
IsRetryable(status) == status \in RetryableStatuses

\* line 47: fetch(url, options) is called and awaited
Fetch(s) ==
  [s EXCEPT !.pc = "fetch", !.inflight = @ + 1,
            !.sent = Append(@, [model |-> s.url.model, params |-> s.url.params,
                                headers |-> s.headers, attempt |-> s.attempt])]

\* line 45: the loop test; running off the loop returns undefined, and the
\* handler's gresp.ok then throws
Loop(s) ==
  IF s.attempt <= Retries THEN Fetch(s) ELSE Catch(s, "TypeError")

\* a retry loop whose delay lives on from the call for the previous model
fetchWithRetryKeepsDelay(s) ==
  Loop([s EXCEPT !.delay = IF @ = 0 THEN InitialDelay * DelayUnit ELSE @,
                 !.attempt = 1, !.faults = {}])

\* lines 42-45
fetchWithRetry(s) ==
  Loop([s EXCEPT !.delay = InitialDelay * DelayUnit, !.attempt = 1, !.faults = {}])

\* lines 57 and 66: the backoff timer is set and awaited
Backoff(s) ==
  [s EXCEPT !.pc = "backoff", !.waits = Append(@, [model |-> s.model, ms |-> s.delay])]

\* a retry loop that forgets to grow the delay
AfterBackoffNoGrowth(s) == Loop([s EXCEPT !.attempt = @ + 1])

\* a retry loop whose attempt counter is one variable of the process, shared
\* by the calls under way
AfterBackoffSharedAttempt(s) ==
  Loop([s EXCEPT !.delay = (@ * GrowthNum) \div GrowthDen,
                 !.attempt = 1 + (CHOOSE n \in {req[q].attempt : q \in Reqs} :
                                    \A q \in Reqs : req[q].attempt <= n)])

\* lines 58-59 and 67: after the timer, delay *= 1.8 and the next attempt
AfterBackoff(s) ==
  Loop([s EXCEPT !.delay = (@ * GrowthNum) \div GrowthDen, !.attempt = @ + 1])

\* a resolver that prefers the service account when one is configured
IteratePrefersServiceAccount(e, s, m) ==
  LET s1 == [s EXCEPT !.model = m, !.gresp = NoResp,
                      !.url = [model |-> modelsToTry[m], params |-> {}],
                      !.headers = ("Content-Type" :> "application/json")]
  IN IF Truthy(e.GOOGLE_API_KEY) /\ ~Truthy(e.GOOGLE_APPLICATION_CREDENTIALS)
       THEN fetchWithRetry([s1 EXCEPT !.url.params = {<<"key", e.GOOGLE_API_KEY.v>>}])
       ELSE [s1 EXCEPT !.pc = "getClient", !.authCalls = @ + 1]

\* a resolver with a process-wide token cache: a token some request obtained
\* before is used again
IterateCachesToken(e, s, m) ==
  LET s1 == [s EXCEPT !.model = m, !.gresp = NoResp,
                      !.url = [model |-> modelsToTry[m], params |-> {}],
                      !.headers = ("Content-Type" :> "application/json")]
      cached == {req[q].headers : q \in {q \in Reqs : "Authorization" \in DOMAIN req[q].headers}}
  IN IF Truthy(e.GOOGLE_API_KEY)
       THEN fetchWithRetry([s1 EXCEPT !.url.params = {<<"key", e.GOOGLE_API_KEY.v>>}])
       ELSE IF cached # {}
         THEN fetchWithRetry([s1 EXCEPT !.headers = CHOOSE h \in cached : TRUE])
         ELSE [s1 EXCEPT !.pc = "getClient", !.authCalls = @ + 1]

\* lines 95-109, up to the first await
Iterate(e, s, m) ==
  LET s1 == [s EXCEPT !.model = m, !.gresp = NoResp,
                      !.url = [model |-> modelsToTry[m], params |-> {}],
                      !.headers = ("Content-Type" :> "application/json")]
  IN IF Truthy(e.GOOGLE_API_KEY)
       THEN fetchWithRetry([s1 EXCEPT !.url.params = {<<"key", e.GOOGLE_API_KEY.v>>}])
       ELSE [s1 EXCEPT !.pc = "getClient", !.authCalls = @ + 1]

\* line 92: the next model of modelsToTry, or the end of the loop (the
\* handler then returns without a response)
NextModel(e, s) ==
  IF s.model + 1 > Len(modelsToTry) THEN [s EXCEPT !.pc = "done"]
  ELSE Iterate(e, s, s.model + 1)

\* a handler whose primary always hands over to the fallback
ReturnedTriesEveryModel(e, s, res) ==
  LET s1 == [s EXCEPT !.gresp = res,
                      !.returned = Append(@, [model |-> s.model, attempt |-> s.attempt,
                                              status |-> res.status])]
  IN IF modelsToTry[s.model] # FALLBACK_MODEL THEN NextModel(e, s1)
     ELSE IF ~Ok(res.status) THEN [s1 EXCEPT !.pc = "text"]
     ELSE [s1 EXCEPT !.pc = "json"]

\* a handler that moves on after every failed model, the last one too
ReturnedAlwaysContinues(e, s, res) ==
  LET s1 == [s EXCEPT !.gresp = res,
                      !.returned = Append(@, [model |-> s.model, attempt |-> s.attempt,
                                              status |-> res.status])]
  IN IF ~Ok(res.status) THEN NextModel(e, s1) ELSE [s1 EXCEPT !.pc = "json"]

\* lines 129-149: fetchWithRetry has returned res
Returned(e, s, res) ==
  LET s1 == [s EXCEPT !.gresp = res,
                      !.returned = Append(@, [model |-> s.model, attempt |-> s.attempt,
                                              status |-> res.status])]
  IN IF ~Ok(res.status)
       THEN IF modelsToTry[s.model] = FALLBACK_MODEL
              THEN [s1 EXCEPT !.pc = "text"]
              ELSE NextModel(e, s1)
       ELSE [s1 EXCEPT !.pc = "json"]

\* a retry loop that sets the timer and sends the next attempt without
\* awaiting it
OnResponseRetriesAtOnce(e, s, res) ==
  IF IsRetryable(res.status)
    THEN IF s.attempt = Retries THEN Returned(e, s, res)
         ELSE AfterBackoff(Backoff([s EXCEPT !.faults = @ \cup {"status"}]))
    ELSE Returned(e, s, res)

\* a retry loop without the return on the last attempt
OnResponseAlwaysWaits(e, s, res) ==
  IF IsRetryable(res.status)
    THEN Backoff([s EXCEPT !.faults = @ \cup {"status"}])
    ELSE Returned(e, s, res)

\* lines 50-62: fetch resolved with res
OnResponse(e, s, res) ==
  IF IsRetryable(res.status)
    THEN IF s.attempt = Retries THEN Returned(e, s, res)
         ELSE Backoff([s EXCEPT !.faults = @ \cup {"status"}])
    ELSE Returned(e, s, res)

\* a retry loop that gives up on the first transport error
OnNetworkErrorNoRetry(s) == Catch(s, "FetchError")

\* a handler that treats an exhausted transport error like a failed status
OnNetworkErrorFallsThrough(s) ==
  IF s.attempt = Retries
    THEN IF modelsToTry[s.model] = FALLBACK_MODEL THEN Catch(s, "FetchError")
         ELSE NextModel(env, s)
    ELSE Backoff([s EXCEPT !.faults = @ \cup {"network"}])

\* a retry loop whose transport errors start the delay over
OnNetworkErrorResetsDelay(s) ==
  IF s.attempt = Retries THEN Catch(s, "FetchError")
  ELSE Backoff([s EXCEPT !.faults = @ \cup {"network"},
                         !.delay = InitialDelay * DelayUnit])

\* lines 63-68: fetch rejected
OnNetworkError(s) ==
  IF s.attempt = Retries THEN Catch(s, "FetchError")
  ELSE Backoff([s EXCEPT !.faults = @ \cup {"network"}])

\* line 108
Bearer(accessToken) ==
  "Bearer " \o ToStr(OrElse(Get(accessToken, "token"), accessToken))

\* line 136: gresp.text().catch(() => "")
TextOf(res) == IF res.readable THEN res.body ELSE ""

\* a handler that reports the first failed model instead of the last
UpstreamErrorOfPrimary(s) ==
  Respond(s, 502, [error |-> "upstream error", status |-> s.returned[1].status,
                   body |-> TextOf(s.gresp)])

\* lines 136-141
UpstreamError(s) ==
  Respond(s, 502, [error |-> "upstream error", status |-> s.gresp.status,
                   body |-> TextOf(s.gresp)])

\* a handler that treats an unparseable 2xx body as a failed model
SuccessOrNextModel(s) ==
  IF s.gresp.readable /\ Parse(s.gresp.body).ok
    THEN CHOOSE t \in {Respond(s, 200, [raw |-> json, text |-> ExtractText(json)]) :
                        json \in {Parse(s.gresp.body).json}} : TRUE
    ELSE NextModel(env, s)

\* lines 149-160
Success(s) ==
  IF s.gresp.readable /\ Parse(s.gresp.body).ok
    THEN CHOOSE t \in {Respond(s, 200, [raw |-> json, text |-> ExtractText(json)]) :
                        json \in {Parse(s.gresp.body).json}} : TRUE
    ELSE Catch(s, IF s.gresp.readable THEN "SyntaxError" ELSE "BodyError")

----------------------------------------------------------------------------
(* Actions: one per completion of what the handler awaits *)

Step(r, s) == req' = [req EXCEPT ![r] = [s EXCEPT !.steps = @ + 1]]

\* a validation that lets the empty string through
MissingOnlyWhenAbsent(prompt) == prompt.t = "undefined"

\* line 88: !prompt
MissingPrompt(prompt) == ~Truthy(prompt)

\* lines 85-92: a request arrives
Receive(r) ==
  /\ req[r].pc = "idle"
  /\ \E p \in Prompts :
       LET s == [req[r] EXCEPT !.prompt = p]
       IN Step(r, IF MissingPrompt(p) THEN Respond(s, 400, [error |-> "Missing prompt"])
                  ELSE Iterate(env, s, 1))
  /\ UNCHANGED <<env, issued>>

\* line 106: auth.getClient() resolves when the staged service account can
\* be loaded (other credential sources of the library are not modelled)
GetClientResolves(r) ==
  /\ req[r].pc = "getClient"
  /\ Truthy(env.GOOGLE_APPLICATION_CREDENTIALS)
  /\ Step(r, [req[r] EXCEPT !.pc = "getAccessToken", !.tokenCalls = @ + 1])
  /\ UNCHANGED <<env, issued>>

\* a handler that gives up the model whose credentials fail and goes on
GetClientRejectsSkipsModel(r) ==
  /\ req[r].pc = "getClient"
  /\ Step(r, NextModel(env, req[r]))
  /\ UNCHANGED <<env, issued>>

\* line 106: auth.getClient() rejects (no credentials, or unusable ones)
GetClientRejects(r) ==
  /\ req[r].pc = "getClient"
  /\ Step(r, Catch(req[r], "CredentialError"))
  /\ UNCHANGED <<env, issued>>

\* lines 107-119: the token exchange answers
TokenResolves(r) ==
  /\ req[r].pc = "getAccessToken"
  /\ issued' = issued + 1
  /\ \E accessToken \in AccessTokens(issued + 1) :
       Step(r, fetchWithRetry([req[r] EXCEPT
                 !.headers = @ @@ ("Authorization" :> Bearer(accessToken))]))
  /\ UNCHANGED env

\* line 107: the token exchange fails
TokenRejects(r) ==
  /\ req[r].pc = "getAccessToken"
  /\ Step(r, Catch(req[r], "TokenError"))
  /\ UNCHANGED <<env, issued>>

\* line 47: fetch resolves
FetchResolves(r) ==
  /\ req[r].pc = "fetch"
  /\ \E res \in Responses :
       Step(r, OnResponse(env, [req[r] EXCEPT !.inflight = @ - 1, !.last = res], res))
  /\ UNCHANGED <<env, issued>>

\* line 47: fetch rejects
FetchRejects(r) ==
  /\ req[r].pc = "fetch"
  /\ Step(r, OnNetworkError([req[r] EXCEPT !.inflight = @ - 1, !.last = NetError]))
  /\ UNCHANGED <<env, issued>>

\* lines 57 and 66: the backoff timer fires
TimerFires(r) ==
  /\ req[r].pc = "backoff"
  /\ Step(r, AfterBackoff(req[r]))
  /\ UNCHANGED <<env, issued>>

\* line 136: the error body has been read (or could not be)
TextSettles(r) ==
  /\ req[r].pc = "text"
  /\ Step(r, UpstreamError(req[r]))
  /\ UNCHANGED <<env, issued>>

\* line 149: gresp.json() settles
JsonSettles(r) ==
  /\ req[r].pc = "json"
  /\ Step(r, Success(req[r]))
  /\ UNCHANGED <<env, issued>>

Handle(r) ==
  \/ GetClientResolves(r)
  \/ GetClientRejects(r)
  \/ TokenResolves(r)
  \/ TokenRejects(r)
  \/ FetchResolves(r)
  \/ FetchRejects(r)
  \/ TimerFires(r)
  \/ TextSettles(r)
  \/ JsonSettles(r)

Next == \E r \in Single : Receive(r) \/ Handle(r)

Spec == Init /\ [][Next]_vars

\* every upstream call, token exchange, body read and timer of a request that
\* has arrived eventually completes or errors
LiveSpec == Spec /\ \A r \in Reqs : WF_vars(Handle(r))

\* Two requests side by side: the serving layer runs the handler of either
\* request whenever something it awaits has settled.  The process is started
\* with a service account that could be staged, with or without an API key;
\* the upstream outcomes followed are one success, one retryable failure and
\* the transport error.
InitConc ==
  /\ Init
  /\ Truthy(env.GOOGLE_APPLICATION_CREDENTIALS)

ConcResponses ==
  {res \in Responses : res.readable /\ <<res.status, res.body>> \in {<<200, BodyHello>>, <<503, BodyQuota>>}}

Followed(s) ==
  /\ s.last \in {NoResp, NetError} \cup ConcResponses
  /\ "Authorization" \in DOMAIN s.headers =>
       s.headers["Authorization"] # Bearer(JObj([token |-> JNull]))

NextConc == \E r \in Reqs : (Receive(r) \/ Handle(r)) /\ Followed(req'[r])

SpecConc == InitConc /\ [][NextConc]_vars

----------------------------------------------------------------------------
(* What the claims speak about *)

\* the index in modelsToTry of a model name
IndexOf(name) == CHOOSE m \in 1..Len(modelsToTry) : modelsToTry[m] = name

\* the upstream requests of s for model m, and the backoff waits of its call
CallsOf(s, m) == SelectSeq(s.sent, LAMBDA q : q.model = modelsToTry[m])
WaitsOf(s, m) == SelectSeq(s.waits, LAMBDA w : w.model = m)

\* the latest upstream request that has an outcome (s.last is that outcome)
HasOutcome(s) == Len(s.sent) - s.inflight >= 1
Latest(s) == s.sent[Len(s.sent) - s.inflight]

\* the latest outcome is a transport error / a response
LatestFailed(s) == HasOutcome(s) /\ s.last = NetError
LatestAnswered(s) == HasOutcome(s) /\ s.last.status > 0

InternalError(details) ==
  [code |-> 500, body |-> [error |-> "internal error", details |-> details]]

\* C1: when the transport errors on the 7th attempt for the primary model, the
\* request is over with the 500 'internal error' response and no upstream
\* request has been or will be made for the fallback model.
C1_FinalTransportError(s) ==
  /\ LatestFailed(s)
  /\ Latest(s).model = PRIMARY_MODEL
  /\ Latest(s).attempt = Retries

C1_PrimaryTransportErrorIsFatal ==
  \A r \in Reqs :
    C1_FinalTransportError(req[r]) =>
      /\ req[r].pc = "done"
      /\ req[r].reply = <<InternalError("FetchError")>>
      /\ Len(CallsOf(req[r], IndexOf(FALLBACK_MODEL))) = 0
      /\ ~ENABLED Handle(r)

\* reached after retryable statuses and transport errors on attempts 1..6
C1_Witness ==
  \E r \in Reqs :
    /\ C1_FinalTransportError(req[r])
    /\ req[r].faults = {"status", "network"}
    /\ req[r].pc = "done"

\* C2: a non-2xx response returned for the primary model sends the handler on
\* to the fallback model without another call of the primary; when the
\* fallback's returned response is non-2xx too, the answer is 502 'upstream
\* error' with the status and body of the fallback's last response.
C2_PrimaryFailed(s) ==
  /\ Len(s.returned) >= 1
  /\ s.returned[1].model = IndexOf(PRIMARY_MODEL)
  /\ ~(s.returned[1].status \in 200..299)

C2_BothFailed(s) ==
  /\ C2_PrimaryFailed(s)
  /\ Len(s.returned) = 2
  /\ ~(s.returned[2].status \in 200..299)

C2_ModelFallback ==
  \A r \in Reqs :
    LET s == req[r] IN
      /\ C2_PrimaryFailed(s) =>
           /\ s.model = IndexOf(FALLBACK_MODEL)
           /\ Len(CallsOf(s, IndexOf(PRIMARY_MODEL))) = s.returned[1].attempt
           /\ \A i, j \in 1..Len(s.sent) :
                (i < j /\ s.sent[i].model = FALLBACK_MODEL) => s.sent[j].model = FALLBACK_MODEL
      /\ C2_BothFailed(s) =>
           /\ s.returned[2].model = IndexOf(FALLBACK_MODEL)
           /\ Latest(s).model = FALLBACK_MODEL
           /\ s.last.status = s.returned[2].status
           /\ s.pc \in {"text", "done"}
           /\ s.pc = "done" =>
                s.reply = <<[code |-> 502,
                             body |-> [error |-> "upstream error",
                                       status |-> s.last.status,
                                       body |-> IF s.last.readable THEN s.last.body ELSE ""]]>>

\* both models failed, with different statuses and error bodies read
C2_Witness ==
  \E r \in Reqs :
    /\ C2_BothFailed(req[r])
    /\ req[r].pc = "done"
    /\ req[r].returned[1].status = 404
    /\ req[r].returned[2].status = 503
    /\ req[r].reply[1].body.body = BodyQuota

\* 600 * 1.8^(i-1) ms, in units of 1/DelayUnit ms
ExpectedDelay(i) == InitialDelay * GrowthNum ^ (i - 1) * GrowthDen ^ (Retries - i)

\* the backoff waits of the call for model m are the first n of 600, 1080, ...
WaitsAreExpected(s, m, n) ==
  /\ Len(WaitsOf(s, m)) = n
  /\ \A i \in 1..n : WaitsOf(s, m)[i].ms = ExpectedDelay(i)

\* C3: a fetchWithRetry call whose every attempt gets a retryable status makes
\* exactly Retries upstream requests and Retries - 1 waits, none after the last
\* attempt, and the i-th wait is 600 * 1.8^(i-1) ms.
C3_InProgress(s) ==
  (s.pc \in {"fetch", "backoff"} /\ s.faults \subseteq {"status"}) =>
    /\ s.attempt <= Retries
    /\ Len(CallsOf(s, s.model)) = s.attempt
    /\ WaitsAreExpected(s, s.model, IF s.pc = "backoff" THEN s.attempt ELSE s.attempt - 1)
    /\ (s.pc = "backoff" /\ s.attempt < Retries) => LatestAnswered(s) /\ s.last.status \in RetryableStatuses

C3_NotBeforeLast(s) ==
  (LatestAnswered(s) /\ s.last.status \in RetryableStatuses /\ Latest(s).attempt < Retries) =>
    /\ s.pc \in {"fetch", "backoff"}
    /\ modelsToTry[s.model] = Latest(s).model
    /\ Len(s.returned) = s.model - 1

C3_LastAttempt(s, t) ==
  (s.pc = "fetch" /\ s.attempt = Retries /\ s.faults = {"status"}
     /\ t.last.status \in RetryableStatuses) =>
    /\ t.returned = Append(s.returned, [model |-> s.model, attempt |-> Retries,
                                        status |-> t.last.status])
    /\ Len(CallsOf(t, s.model)) = Retries
    /\ WaitsAreExpected(t, s.model, Retries - 1)
    /\ t.pc # "backoff"

C3_AllRetryable ==
  /\ [](\A r \in Reqs : C3_InProgress(req[r]) /\ C3_NotBeforeLast(req[r]))
  /\ [][\A r \in Reqs : C3_LastAttempt(req[r], req'[r])]_vars

\* the fallback's call returned its 7th retryable status after 6 waits
C3_Witness ==
  \E r \in Reqs :
    /\ req[r].pc = "text"
    /\ req[r].faults = {"status"}
    /\ req[r].gresp.status = 503
    /\ Len(CallsOf(req[r], 2)) = Retries
    /\ Len(WaitsOf(req[r], 2)) = Retries - 1

\* C4: the first response with a status outside {429, 500, 502, 503, 504}, 2xx
\* or not, makes fetchWithRetry return: no upstream request for that call and
\* no backoff wait follows it; on attempt 1 that is exactly one call.
C4_LatestNotRetryable(s) ==
  (LatestAnswered(s) /\ s.last.status \notin RetryableStatuses) =>
    LET q == Latest(s)
        m == IndexOf(q.model)
    IN /\ Len(s.returned) >= 1
       /\ s.returned[Len(s.returned)] =
            [model |-> m, attempt |-> q.attempt, status |-> s.last.status]
       /\ Len(CallsOf(s, m)) = q.attempt
       /\ Len(WaitsOf(s, m)) = q.attempt - 1
       /\ s.pc # "backoff"

C4_ReturnsAtOnce ==
  \A r \in Reqs :
    /\ C4_LatestNotRetryable(req[r])
    /\ \A i \in 1..Len(req[r].returned) :
         LET e == req[r].returned[i] IN
           e.status \notin RetryableStatuses =>
             /\ Len(CallsOf(req[r], e.model)) = e.attempt
             /\ Len(WaitsOf(req[r], e.model)) = e.attempt - 1

\* 404 on the primary's first attempt: one call of the primary, to the end
C4_Witness ==
  \E r \in Reqs :
    /\ req[r].pc = "done"
    /\ Len(req[r].returned) = 2
    /\ req[r].returned[1] = [model |-> 1, attempt |-> 1, status |-> 404]
    /\ Len(CallsOf(req[r], 1)) = 1
    /\ Len(WaitsOf(req[r], 1)) = 0

\* C5: fetchWithRetry never fails because of a status: on the last attempt a
\* retryable status is returned as received.  It throws only for a transport
\* error on attempt Retries; an earlier transport error is swallowed and
\* followed by a backoff wait and another attempt.
C5_Statuses(s) ==
  /\ LatestAnswered(s) => \A i \in 1..Len(s.threw) : s.threw[i].error # "FetchError"
  /\ (LatestAnswered(s) /\ s.last.status \in RetryableStatuses
        /\ Latest(s).attempt = Retries) =>
       /\ Len(s.returned) >= 1
       /\ s.returned[Len(s.returned)] =
            [model |-> IndexOf(Latest(s).model), attempt |-> Retries,
             status |-> s.last.status]
       /\ modelsToTry[s.model] = Latest(s).model => s.gresp = s.last

C5_TransportErrors(s) ==
  /\ (\E i \in 1..Len(s.threw) : s.threw[i].error = "FetchError") =>
       LatestFailed(s) /\ Latest(s).attempt = Retries
  /\ (LatestFailed(s) /\ Latest(s).attempt = Retries) =>
       s.reply = <<InternalError("FetchError")>>
  /\ (LatestFailed(s) /\ Latest(s).attempt < Retries) =>
       /\ s.reply = <<>>
       /\ s.threw = <<>>
       /\ Len(WaitsOf(s, s.model)) = Latest(s).attempt
       /\ \/ s.pc = "backoff"
          \/ /\ s.pc = "fetch"
             /\ s.sent[Len(s.sent)] = [Latest(s) EXCEPT !.attempt = @ + 1]

C5_FailsOnlyOnFinalTransportError ==
  \A r \in Reqs : C5_Statuses(req[r]) /\ C5_TransportErrors(req[r])

\* a transport error on attempt 3 was swallowed and attempt 4 is in flight
C5_Witness ==
  \E r \in Reqs :
    /\ LatestFailed(req[r])
    /\ Latest(req[r]).attempt = 3
    /\ req[r].pc = "fetch"
    /\ req[r].attempt = 4

\* C6: a request whose prompt is empty or absent is answered 400 'Missing
\* prompt' and causes no upstream request, no credential or token acquisition
\* and no backoff wait.
C6_MissingPromptNoNetwork ==
  \A r \in Reqs :
    LET s == req[r] IN
      (s.pc # "idle" /\ (s.prompt = Undefined \/ s.prompt = JStr(""))) =>
        /\ s.pc = "done"
        /\ s.reply = <<[code |-> 400, body |-> [error |-> "Missing prompt"]]>>
        /\ s.sent = <<>>
        /\ s.inflight = 0
        /\ s.waits = <<>>
        /\ s.authCalls = 0
        /\ s.tokenCalls = 0

C6_Witness ==
  \E r \in Reqs :
    /\ req[r].pc = "done"
    /\ req[r].prompt = JStr("")
    /\ req[r].reply[1].code = 400

\* the latest outcome is a 2xx response
LatestOk(s) == LatestAnswered(s) /\ s.last.status \in 200..299

\* the 2xx body of the latest outcome can be read and is JSON
LatestParses(s) == LatestOk(s) /\ s.last.readable /\ Parse(s.last.body).ok

C7_ShortCircuit(s) ==
  LatestOk(s) =>
    /\ Latest(s) = s.sent[Len(s.sent)]
    /\ s.inflight = 0
    /\ s.pc \in {"json", "done"}
    /\ s.returned[Len(s.returned)] =
         [model |-> IndexOf(Latest(s).model), attempt |-> Latest(s).attempt,
          status |-> s.last.status]

C7_SuccessBuilt(s) ==
  /\ Len(s.reply) = 1
  /\ s.reply[1].code = 200
  /\ DOMAIN s.reply[1].body = {"raw", "text"}
  /\ s.reply[1].body.raw = Parse(s.last.body).json

C7_OnlyAfterOk(s) ==
  \A i \in 1..Len(s.reply) :
    s.reply[i].code = 200 =>
      /\ LatestOk(s)
      /\ Len(s.returned) >= 1
      /\ s.returned[Len(s.returned)].status \in 200..299

\* C7 as stated: every 2xx response that fetchWithRetry returns ends the
\* request with the success response {text, raw} built from it, no later model
\* is called, and success is sent only after a 2xx return.
C7_EverySuccessShortCircuits ==
  \A r \in Reqs :
    /\ C7_ShortCircuit(req[r])
    /\ (LatestOk(req[r]) /\ req[r].pc = "done") => C7_SuccessBuilt(req[r])
    /\ C7_OnlyAfterOk(req[r])

\* C7, amended: a returned 2xx response whose body can be read and parsed as
\* JSON ends the request with the success response {text, raw} built from it;
\* after any returned 2xx response no later model is called; success is sent
\* only after a 2xx return.
C7_ParsedSuccessShortCircuits ==
  \A r \in Reqs :
    /\ C7_ShortCircuit(req[r])
    /\ (LatestParses(req[r]) /\ req[r].pc = "done") => C7_SuccessBuilt(req[r])
    /\ C7_OnlyAfterOk(req[r])

\* the primary succeeded on its third attempt and the fallback was never called
C7_Witness ==
  \E r \in Reqs :
    /\ req[r].pc = "done"
    /\ LatestParses(req[r])
    /\ Latest(req[r]).model = PRIMARY_MODEL
    /\ Latest(req[r]).attempt = 3
    /\ req[r].reply[1].code = 200
    /\ Len(CallsOf(req[r], IndexOf(FALLBACK_MODEL))) = 0

\* C8: with an API key configured, also next to a service account, every
\* upstream request carries ?key=, none carries an Authorization header and no
\* token exchange is started; each upstream request carries exactly one of
\* the two credential forms.
C8_ApiKeyPrecedence ==
  \A r \in Reqs :
    LET s == req[r] IN
      /\ env.GOOGLE_API_KEY # Undefined =>
           /\ s.authCalls = 0
           /\ s.tokenCalls = 0
           /\ issued = 0
           /\ s.pc \notin {"getClient", "getAccessToken"}
           /\ \A i \in 1..Len(s.sent) :
                /\ s.sent[i].params = {<<"key", env.GOOGLE_API_KEY.v>>}
                /\ "Authorization" \notin DOMAIN s.sent[i].headers
      /\ \A i \in 1..Len(s.sent) :
           (\E kv \in s.sent[i].params : kv[1] = "key")
             # ("Authorization" \in DOMAIN s.sent[i].headers)

\* key and service account both configured, both models called
C8_Witness ==
  \E r \in Reqs :
    /\ env.GOOGLE_API_KEY # Undefined
    /\ env.GOOGLE_APPLICATION_CREDENTIALS # Undefined
    /\ req[r].pc = "done"
    /\ Len(CallsOf(req[r], 1)) >= 2
    /\ Len(CallsOf(req[r], 2)) >= 2

\* C9: every request ends with exactly one JSON response: 400 for a missing
\* prompt, 200 {text, raw} on success, 502 {error, status, body} when the last
\* model's response is non-2xx, 500 {error, details} for a propagated error;
\* no path ends without a response and none sends two.
C9_Shape(s, rp) ==
  \/ /\ rp = [code |-> 400, body |-> [error |-> "Missing prompt"]]
     /\ s.prompt \in {Undefined, JStr("")}
  \/ /\ rp.code = 200
     /\ DOMAIN rp.body = {"raw", "text"}
     /\ LatestOk(s)
  \/ /\ rp.code = 502
     /\ DOMAIN rp.body = {"error", "status", "body"}
     /\ rp.body.error = "upstream error"
     /\ LatestAnswered(s) /\ ~(s.last.status \in 200..299)
     /\ Latest(s).model = modelsToTry[Len(modelsToTry)]
  \/ /\ rp.code = 500
     /\ DOMAIN rp.body = {"error", "details"}
     /\ rp.body.error = "internal error"
     /\ Len(s.threw) = 1

C9_Causes(s) ==
  /\ s.prompt \in {Undefined, JStr("")} => s.reply[1].code = 400
  /\ LatestParses(s) => s.reply[1].code = 200
  /\ (LatestAnswered(s) /\ ~(s.last.status \in 200..299)
        /\ Latest(s).model = modelsToTry[Len(modelsToTry)]) => s.reply[1].code = 502
  /\ LatestFailed(s) => s.reply[1].code = 500

C9_OneResponse(s) ==
  /\ Len(s.reply) <= 1
  /\ s.pc = "done" <=> Len(s.reply) = 1
  /\ s.pc = "done" => C9_Shape(s, s.reply[1]) /\ C9_Causes(s)

\* an upper bound of the handler steps a request has left: per model the two
\* credential steps and Retries fetches with a wait between them, then the
\* reading of the body
C9_StepsPerModel == 2 * Retries + 2
C9_StepsLeft(s) ==
  CASE s.pc = "done" -> 0
    [] s.pc \in {"text", "json"} -> 1
    [] s.pc = "idle" -> (Len(modelsToTry) + 1) * C9_StepsPerModel
    [] OTHER ->
         1 + (Len(modelsToTry) - s.model) * C9_StepsPerModel
           + (CASE s.pc = "getClient" -> 2 * Retries + 1
                [] s.pc = "getAccessToken" -> 2 * Retries
                [] s.pc = "fetch" -> 2 * (Retries - s.attempt) + 1
                [] s.pc = "backoff" -> 2 * (Retries - s.attempt))

\* While what the handler awaits keeps completing (LiveSpec), the request
\* ends: a request under way always has a next step, and the steps it has
\* taken and the steps it has left never exceed the steps of a whole request.
C9_ExactlyOneResponse ==
  \A r \in Reqs :
    /\ C9_OneResponse(req[r])
    /\ req[r].pc \notin {"idle", "done"} => ENABLED Handle(r)
    /\ C9_StepsLeft(req[r]) >= 0
    /\ req[r].steps + C9_StepsLeft(req[r]) <= C9_StepsLeft(NewRequest)

\* both models were tried and the request ended with the 502
C9_Witness ==
  \E r \in Reqs :
    /\ req[r].pc = "done"
    /\ Len(req[r].reply) = 1
    /\ req[r].reply[1].code = 502
    /\ Len(req[r].returned) = 2

\* the two tolerated shapes, read off the parsed body
IsObject(x, k) == x.t = "obj" /\ k \in DOMAIN x.v
HasCandidateParts(json) ==
  /\ IsObject(json, "candidates")
  /\ json.v.candidates.t = "arr" /\ Len(json.v.candidates.v) >= 1
  /\ IsObject(json.v.candidates.v[1], "content")
  /\ IsObject(json.v.candidates.v[1].v.content, "parts")
HasContentParts(json) ==
  /\ IsObject(json, "content")
  /\ json.v.content.t = "arr" /\ Len(json.v.content.v) >= 1
  /\ IsObject(json.v.content.v[1], "parts")
TheCandidateParts(json) == json.v.candidates.v[1].v.content.v.parts
TheContentParts(json) == json.v.content.v[1].v.parts

\* a list of part objects, and its text: the parts' texts, one per line
IsPartList(x) == x.t = "arr" /\ \A i \in 1..Len(x.v) : x.v[i].t = "obj"
LineOf(p) == IF "text" \in DOMAIN p.v /\ p.v.text.t = "str" THEN p.v.text.v ELSE ""
RECURSIVE LinesOf(_)
LinesOf(ps) ==
  IF Len(ps) = 0 THEN ""
  ELSE IF Len(ps) = 1 THEN LineOf(ps[1])
  ELSE LineOf(ps[1]) \o "\n" \o LinesOf(Tail(ps))

SuccessWith(json, text) == <<[code |-> 200, body |-> [raw |-> json, text |-> JStr(text)]]>>

\* C10: the extracted text is that of candidates[0].content.parts when that
\* list exists, else that of content[0].parts when that list exists; a body of
\* neither shape gives the empty string and the request still succeeds.
C10_Extraction(s) ==
  LET json == Parse(s.last.body).json IN
    /\ (HasCandidateParts(json) /\ IsPartList(TheCandidateParts(json))) =>
         s.reply = SuccessWith(json, LinesOf(TheCandidateParts(json).v))
    /\ (~HasCandidateParts(json) /\ HasContentParts(json)
          /\ IsPartList(TheContentParts(json))) =>
         s.reply = SuccessWith(json, LinesOf(TheContentParts(json).v))
    /\ (~HasCandidateParts(json) /\ ~HasContentParts(json)) =>
         s.reply = SuccessWith(json, "")
    /\ s.last.body = BodyHello => s.reply[1].body.text = JStr("hello")
    /\ s.last.body = BodyWorld => s.reply[1].body.text = JStr("world")
    /\ s.last.body = BodyTwoParts => s.reply[1].body.text = JStr("a\n\nb")

C10_TextExtraction ==
  \A r \in Reqs :
    (req[r].pc = "done" /\ LatestParses(req[r])) => C10_Extraction(req[r])

\* a body with both shapes: the text is that of candidates[0].content.parts
C10_Witness ==
  \E r \in Reqs :
    /\ req[r].pc = "done"
    /\ LatestParses(req[r])
    /\ req[r].last.body = BodyBoth
    /\ req[r].reply[1].body.text = JStr("hello")

\* the latest outcome is a failure that fetchWithRetry retries
LatestRetried(s) ==
  /\ HasOutcome(s)
  /\ s.last = NetError \/ s.last.status \in RetryableStatuses
  /\ Latest(s).attempt < Retries

C11_OneInFlight(s) ==
  /\ s.inflight \in {0, 1}
  /\ s.inflight = 1 <=> s.pc = "fetch"
  /\ s.pc = "backoff" => LatestRetried(s)

\* the step from s to t sends an upstream request
C11_Sends(s, t) == Len(t.sent) > Len(s.sent)

C11_SentInTurn(s, t) ==
  C11_Sends(s, t) =>
    LET q == t.sent[Len(t.sent)] IN
      /\ t.sent = Append(s.sent, q)
      /\ t.inflight = 1
      /\ s.inflight = 1 => s.pc = "fetch" /\ q.attempt = 1
      /\ q.attempt > 1 =>
           /\ s.pc = "backoff" /\ s.inflight = 0
           /\ LatestRetried(s)
           /\ Latest(s) = [q EXCEPT !.attempt = @ - 1]
           /\ Len(WaitsOf(s, IndexOf(q.model))) = q.attempt - 1
           /\ t.waits = s.waits
      /\ (q.model = FALLBACK_MODEL /\ q.attempt = 1) =>
           /\ Len(t.returned) = 1
           /\ t.returned[1].model = IndexOf(PRIMARY_MODEL)
           /\ t.returned[1].attempt = Len(CallsOf(t, IndexOf(PRIMARY_MODEL)))
           /\ \A i \in 1..Len(s.sent) : s.sent[i].model = PRIMARY_MODEL
           /\ t.last.status > 0 => t.last.status = t.returned[1].status

\* C11: at every moment at most one upstream request of a request is in
\* flight; a retry is sent only when the previous attempt has failed and the
\* backoff wait set after it has fired; the fallback's first upstream request
\* is sent only when fetchWithRetry has returned for the primary.
C11_StrictlySequential ==
  /\ [](\A r \in Reqs : C11_OneInFlight(req[r]))
  /\ [][\A r \in Reqs : C11_SentInTurn(req[r], req'[r])]_vars

\* the second attempt for the fallback is in flight
C11_Witness ==
  \E r \in Reqs :
    /\ req[r].pc = "fetch"
    /\ req[r].inflight = 1
    /\ req[r].sent[Len(req[r].sent)].model = FALLBACK_MODEL
    /\ req[r].sent[Len(req[r].sent)].attempt = 2
    /\ Len(req[r].waits) >= 2

\* each wait of the list is longer than the one before it
Growing(ws) == \A i \in 1..(Len(ws) - 1) : ws[i + 1].ms > ws[i].ms

\* C12 as stated: over the whole handling of a prompt, the move from the
\* primary to the fallback included, each backoff wait is longer than the one
\* before it and, once a wait has been made, the delay is never 600 ms again.
C12_NeverResetInRequest ==
  \A r \in Reqs :
    /\ Growing(req[r].waits)
    /\ (req[r].pc = "fetch" /\ Len(req[r].waits) >= 1) =>
         req[r].delay > InitialDelay * DelayUnit
    /\ (req[r].pc = "backoff" /\ Len(req[r].waits) >= 2) =>
         req[r].delay > InitialDelay * DelayUnit

C12_InCall(s) ==
  /\ \A m \in 1..Len(modelsToTry) :
       /\ Growing(WaitsOf(s, m))
       /\ Len(WaitsOf(s, m)) >= 1 => WaitsOf(s, m)[1].ms = InitialDelay * DelayUnit
       /\ \A i \in 1..(Len(WaitsOf(s, m)) - 1) :
            WaitsOf(s, m)[i + 1].ms * GrowthDen = WaitsOf(s, m)[i].ms * GrowthNum
  /\ s.pc \in {"fetch", "backoff"} =>
       /\ s.attempt = 1 => s.delay = InitialDelay * DelayUnit
       /\ s.attempt > 1 => s.delay > InitialDelay * DelayUnit
       /\ Len(WaitsOf(s, s.model)) >= 1 =>
            s.delay >= WaitsOf(s, s.model)[Len(WaitsOf(s, s.model))].ms

\* C12, amended: within one fetchWithRetry call the delay is multiplied by 1.8
\* before each retry and never reset: each wait of the call is longer than the
\* one before it and after the first retry the delay is above 600 ms; every
\* call, the fallback's too, starts again at 600 ms.
C12_NeverResetInCall == \A r \in Reqs : C12_InCall(req[r])

\* the fallback waits 600 ms and then 1080 ms after the primary's six waits
C12_Witness ==
  \E r \in Reqs :
    /\ req[r].pc = "backoff"
    /\ Len(WaitsOf(req[r], 1)) = Retries - 1
    /\ Len(WaitsOf(req[r], 2)) = 2
    /\ WaitsOf(req[r], 2)[1].ms = InitialDelay * DelayUnit
    /\ WaitsOf(req[r], 2)[2].ms = ExpectedDelay(2)

\* C13: for every 2xx body that is JSON, also one whose parts value is not a
\* list or whose parts list holds null, the success response is sent and its
\* text is a string: the empty string when the parts are malformed.
C13_MalformedGivesEmptyText ==
  \A r \in Reqs :
    (req[r].pc = "done" /\ LatestParses(req[r])) =>
      /\ Len(req[r].reply) = 1
      /\ req[r].reply[1].code = 200
      /\ req[r].reply[1].body.text.t = "str"
      /\ req[r].last.body \in {BodyPartsString, BodyPartsNull} =>
           req[r].reply[1].body.text = JStr("")

C14_Budget(s, m) ==
  /\ Len(CallsOf(s, m)) <= Retries
  /\ \A k \in 1..Len(CallsOf(s, m)) : CallsOf(s, m)[k].attempt = k
  /\ Len(WaitsOf(s, m)) <= Retries - 1
  /\ \A k \in 1..Len(WaitsOf(s, m)) : WaitsOf(s, m)[k].ms = ExpectedDelay(k)

C14_InLoop(s) ==
  s.pc \in {"fetch", "backoff"} =>
    /\ s.attempt = Len(CallsOf(s, s.model))
    /\ Len(WaitsOf(s, s.model)) = IF s.pc = "backoff" THEN s.attempt ELSE s.attempt - 1
    /\ s.pc = "backoff" => s.delay = ExpectedDelay(s.attempt)
    /\ s.faults = {} <=> (s.pc = "fetch" /\ s.attempt = 1)

\* C14: whatever mix of transport errors and retryable statuses a
\* fetchWithRetry call meets, its k-th upstream request is attempt k, it makes
\* at most Retries requests, and its k-th backoff wait is 600 * 1.8^(k-1) ms.
C14_OneBudgetOneProgression ==
  \A r \in Reqs :
    /\ \A m \in 1..Len(modelsToTry) : C14_Budget(req[r], m)
    /\ C14_InLoop(req[r])

\* the sixth wait of a call that met transport errors and retryable statuses
C14_Witness ==
  \E r \in Reqs :
    /\ req[r].pc = "backoff"
    /\ req[r].faults = {"status", "network"}
    /\ req[r].last = NetError
    /\ req[r].attempt = Retries - 1
    /\ Len(WaitsOf(req[r], req[r].model)) = Retries - 1

\* the step from s to t is a failed credential resolution: getClient settles
\* without a token exchange being started, or the token exchange settles
\* without a token
C16_ClientFails(s, t) ==
  /\ s.pc = "getClient" /\ t # s
  /\ t.tokenCalls = s.tokenCalls \/ ~Truthy(env.GOOGLE_APPLICATION_CREDENTIALS)
C16_TokenFails(s, t) ==
  /\ s.pc = "getAccessToken" /\ t # s
  /\ issued' = issued

C16_Fails(s, t, err) ==
  /\ t.pc = "done"
  /\ t.reply = <<InternalError(err)>>
  /\ t.sent = s.sent
  /\ t.model = s.model
  /\ \A m \in s.model..Len(modelsToTry) : Len(CallsOf(t, m)) = 0

C16_Ended(r) ==
  (req[r].pc = "done" /\ Len(req[r].reply) = 1
     /\ req[r].reply[1] \in {InternalError("CredentialError"), InternalError("TokenError")}) =>
    /\ \A m \in req[r].model..Len(modelsToTry) : Len(CallsOf(req[r], m)) = 0
    /\ req[r].inflight = 0
    /\ ~ENABLED Handle(r)

\* C16: when the credential resolution for a model fails (no usable service
\* account, or the token exchange errors), the request ends with the 500
\* 'internal error' response carrying that error; no upstream request is sent
\* for that model or any later one.
C16_CredentialErrorIsFatal ==
  /\ [](\A r \in Reqs : C16_Ended(r))
  /\ [][\A r \in Reqs :
          /\ C16_ClientFails(req[r], req'[r]) => C16_Fails(req[r], req'[r], "CredentialError")
          /\ C16_TokenFails(req[r], req'[r]) => C16_Fails(req[r], req'[r], "TokenError")]_vars

\* the token exchange for the fallback failed after the primary was called
C16_Witness ==
  \E r \in Reqs :
    /\ req[r].pc = "done"
    /\ req[r].reply = <<InternalError("TokenError")>>
    /\ req[r].model = IndexOf(FALLBACK_MODEL)
    /\ Len(CallsOf(req[r], IndexOf(PRIMARY_MODEL))) >= 2
    /\ Len(CallsOf(req[r], IndexOf(FALLBACK_MODEL))) = 0

\* C18: a request makes at most 14 upstream requests, at most 7 per model,
\* and at most 12 backoff waits, at most 6 per model; the fallback is called
\* only after fetchWithRetry returned a non-2xx response for the primary.
C18_BoundedWork ==
  \A r \in Reqs :
    LET s == req[r] IN
      /\ Len(s.sent) <= 14
      /\ Len(s.waits) <= 12
      /\ \A m \in 1..Len(modelsToTry) :
           Len(CallsOf(s, m)) <= 7 /\ Len(WaitsOf(s, m)) <= 6
      /\ \A i \in 1..Len(s.sent) : s.sent[i].model \in {PRIMARY_MODEL, FALLBACK_MODEL}
      /\ \A i \in 1..Len(s.waits) : s.waits[i].model \in 1..Len(modelsToTry)
      /\ Len(CallsOf(s, IndexOf(FALLBACK_MODEL))) >= 1 =>
           /\ Len(s.returned) >= 1
           /\ s.returned[1].model = IndexOf(PRIMARY_MODEL)
           /\ ~(s.returned[1].status \in 200..299)
           /\ s.returned[1].attempt = Len(CallsOf(s, IndexOf(PRIMARY_MODEL)))

\* the longest request: 14 upstream requests and 12 waits
C18_Witness ==
  \E r \in Reqs :
    /\ req[r].pc = "done"
    /\ Len(req[r].sent) = 14
    /\ Len(req[r].waits) = 12

\* the latest outcome is a 2xx response whose body is not JSON
LatestUnparseable(s) == LatestOk(s) /\ ~(s.last.readable /\ Parse(s.last.body).ok)

\* C19: a 2xx response whose body cannot be parsed as JSON ends the request
\* with the 500 'internal error' response carrying the parse error; no model
\* is called after it, the fallback neither when the primary's body failed.
C19_UnparseableBodyIsFatal ==
  \A r \in Reqs :
    LET s == req[r] IN
      LatestUnparseable(s) =>
        /\ s.pc \in {"json", "done"}
        /\ Latest(s) = s.sent[Len(s.sent)]
        /\ Latest(s).model = PRIMARY_MODEL => Len(CallsOf(s, IndexOf(FALLBACK_MODEL))) = 0
        /\ s.pc = "done" =>
             /\ s.reply = <<InternalError(IF s.last.readable THEN "SyntaxError" ELSE "BodyError")>>
             /\ Len(s.threw) = 1
             /\ s.model = IndexOf(Latest(s).model)
             /\ ~ENABLED Handle(r)

\* the primary answered 200 with an HTML page
C19_Witness ==
  \E r \in Reqs :
    /\ req[r].pc = "done"
    /\ LatestUnparseable(req[r])
    /\ req[r].last.readable /\ req[r].last.body = BodyHtml
    /\ Latest(req[r]).model = PRIMARY_MODEL
    /\ req[r].reply = <<InternalError("SyntaxError")>>

\* the (request, model) pairs for which an upstream request was sent
Called == {c \in Reqs \X (1..Len(modelsToTry)) : Len(CallsOf(req[c[1]], c[2])) >= 1}

\* the Authorization header of an upstream request
AuthorizationOf(q) == q.headers["Authorization"]

C15_PerModel(s) ==
  /\ s.tokenCalls <= s.authCalls /\ s.authCalls <= Len(modelsToTry)
  /\ s.pc \notin {"idle", "done"} => s.authCalls = s.model
  /\ s.pc \in {"fetch", "backoff", "text", "json"} => s.tokenCalls = s.model
  /\ \A m \in 1..Len(modelsToTry) : Len(CallsOf(s, m)) >= 1 => s.tokenCalls >= m
  /\ \A i \in 1..Len(s.sent) :
       /\ "Authorization" \in DOMAIN s.sent[i].headers
       /\ s.sent[i].params = {}
  /\ \A i, j \in 1..Len(s.sent) :
       (s.sent[i].model = s.sent[j].model) <=>
         (AuthorizationOf(s.sent[i]) = AuthorizationOf(s.sent[j]))

C15_PerRequest ==
  /\ issued = Cardinality(Called)
  /\ \A r, q \in Reqs :
       r # q =>
         \A i \in 1..Len(req[r].sent), j \in 1..Len(req[q].sent) :
           AuthorizationOf(req[r].sent[i]) # AuthorizationOf(req[q].sent[j])

\* the step from s to t sends the first upstream request for a model
C15_FirstCall(s, t) ==
  /\ Len(t.sent) = Len(s.sent) + 1
  /\ t.sent[Len(t.sent)].attempt = 1

C15_TokenJustIssued(s, t) ==
  /\ s.pc = "getAccessToken"
  /\ issued' = issued + 1
  /\ AuthorizationOf(t.sent[Len(t.sent)]) \in {Bearer(a) : a \in AccessTokens(issued')}

\* C15: without an API key, each model that is tried gets a token of its
\* own: one token exchange precedes the first upstream request for the model
\* (two exchanges when the fallback is reached), every attempt for the model
\* carries the token of that exchange, and no request carries a token that
\* another request obtained.
C15_FreshTokenPerModel ==
  /\ [](env.GOOGLE_API_KEY = Undefined =>
          /\ \A r \in Reqs : C15_PerModel(req[r])
          /\ C15_PerRequest)
  /\ [][env.GOOGLE_API_KEY = Undefined =>
          \A r \in Reqs :
            C15_FirstCall(req[r], req'[r]) => C15_TokenJustIssued(req[r], req'[r])]_vars

\* both requests retried the fallback: four tokens were issued
C15_Witness ==
  /\ env.GOOGLE_API_KEY = Undefined
  /\ issued = 4
  /\ \A r \in Reqs :
       /\ Len(CallsOf(req[r], IndexOf(PRIMARY_MODEL))) = Retries
       /\ Len(CallsOf(req[r], IndexOf(FALLBACK_MODEL))) >= 2
       /\ req[r].tokenCalls = 2

\* the primary's retry loop has returned a non-2xx response, as far as the
\* outcomes of the request's own upstream requests tell
C17_PrimaryGaveUp(s) ==
  /\ HasOutcome(s)
  /\ \/ Latest(s).model = FALLBACK_MODEL
     \/ /\ LatestAnswered(s) /\ ~(s.last.status \in 200..299)
        /\ s.last.status \notin RetryableStatuses \/ Latest(s).attempt = Retries

\* attempt, delay, model and response of a request, from its own outcomes
C17_Own(s) ==
  /\ C14_InLoop(s)
  /\ s.pc \in {"fetch", "backoff"} =>
       /\ (HasOutcome(s) /\ Latest(s).model = modelsToTry[s.model]) =>
            s.attempt = Latest(s).attempt + (IF s.pc = "fetch" THEN 1 ELSE 0)
       /\ s.delay = ExpectedDelay(s.attempt)
       /\ WaitsAreExpected(s, s.model, IF s.pc = "backoff" THEN s.attempt ELSE s.attempt - 1)
  /\ s.model # 0 => s.model = IF C17_PrimaryGaveUp(s) THEN 2 ELSE 1
  /\ C9_OneResponse(s)
  /\ (s.pc = "done" /\ LatestParses(s)) => C10_Extraction(s)
  /\ (s.pc = "done" /\ s.reply[1].code = 502) =>
       s.reply[1].body = [error |-> "upstream error", status |-> s.last.status,
                          body |-> IF s.last.readable THEN s.last.body ELSE ""]

\* a step of one request leaves the other request and the configuration alone
C17_Frame ==
  /\ env' = env
  /\ \A r, q \in Reqs : (r # q /\ req'[r] # req[r]) => req'[q] = req[q]

\* C17: with two requests interleaved at their awaits, each request's
\* attempt counter, delay, model and response are what its own upstream
\* outcomes make them, and a step of one request changes nothing of the other.
C17_NoInterference ==
  /\ [](\A r \in Reqs : C17_Own(req[r]))
  /\ [][C17_Frame]_vars

\* both requests under way: one waits after its third attempt for the primary,
\* the other has its fifth attempt for the fallback in flight
C17_Witness ==
  \E r, q \in Reqs :
    /\ req[r].pc = "backoff" /\ req[r].model = 1 /\ req[r].attempt = 3
    /\ req[q].pc = "fetch" /\ req[q].model = 2 /\ req[q].attempt = 5

====
